---- MODULE Spec2Model ----
(***************************************************************************)
(* Model of the weather service of src/main.py: the cached endpoint        *)
(* weather(city), the orchestrator get_weather(city) and the provider      *)
(* adapters WeatherApi.fetch / build_url / get_params / parse_response.    *)
(*                                                                         *)
(* Each request is a coroutine on the event loop.  Its position (pc) is    *)
(*   "idle"   no request in this slot                                      *)
(*   "http"   sources[idx].fetch is suspended in `await client.get(...)`   *)
(*   "done"   the endpoint has produced its response body                  *)
(*   "raised" an exception escaped the endpoint                            *)
(***************************************************************************)
EXTENDS Integers, Sequences, FiniteSets, TLC

\* ---------------------------------------------------------------- bounds
NumReq == 2
TickStep == 150

\* ------------------------------------------------------- program constants
\* @cache(expire=300)
TTL == 300

Requests == 1..NumReq

\* Cities as received in the path; two of them differ only in letter case.
City == {"Paris", "paris"}

\* Variant of sources: the list is built the other way round.
sourcesReversed == <<"OpenWeatherMap", "VisualCrossing">>

\* sources = [VisualCrossingAPI(...), OpenWeatherAPI(...)]
sources == <<"VisualCrossing", "OpenWeatherMap">>

\* ------------------------------------------------------------ environment
\* os.environ after load_dotenv(), fixed for the process.
VARIABLE environ

\* Outcome of evaluating a Python expression: a value or a raised exception.
Return(v) == [value |-> v]
Raise(e) == [exc |-> e]
Raised(o) == "exc" \in DOMAIN o

\* ------------------------------------------------------------- adapters
BASE_URL(s) ==
    IF s = "VisualCrossing"
    THEN "https://weather.visualcrossing.com/VisualCrossingWebServices/rest/services/timeline"
    ELSE "http://api.openweathermap.org/data/2.5/weather"

\* Variant of build_url: VisualCrossing's url is BASE_URL, "/" and the city.
build_urlJoined(s, city) ==
    IF s = "VisualCrossing"
    THEN Return(BASE_URL(s) \o "/" \o city)
    ELSE Return(BASE_URL(s))

\* VisualCrossingAPI.build_url evaluates  self.BASE_URL / {city}  inside the
\* f-string: str / set raises TypeError.  OpenWeatherAPI.build_url returns
\* BASE_URL.
build_url(s, city) ==
    IF s = "VisualCrossing"
    THEN Raise([type |-> "TypeError"])
    ELSE Return(BASE_URL(s))

\* A variable that is empty or not set, and the environments considered:
\* both keys configured, or neither.
NoKey == ""
Environments ==
    {[OPENWEATHERMAP_API_KEY |-> "ow-key", VISUALCROSSING_API_KEY |-> "vc-key"],
     [OPENWEATHERMAP_API_KEY |-> NoKey, VISUALCROSSING_API_KEY |-> NoKey]}

\* The keys read from the environment, once per process.
get_api_keys ==
    [openweathermap |-> environ["OPENWEATHERMAP_API_KEY"],
     visualcrossing |-> environ["VISUALCROSSING_API_KEY"]]

\* self.api_key of each entry of sources.
api_key(s) ==
    IF s = "VisualCrossing"
    THEN get_api_keys["visualcrossing"]
    ELSE get_api_keys["openweathermap"]

get_params(s, city) ==
    IF s = "VisualCrossing"
    THEN Return([key |-> api_key(s), unitGroup |-> "metric", include |-> "current"])
    ELSE Return([q |-> city, appid |-> api_key(s), units |-> "metric"])

\* d[k] on a dict: KeyError when the key is absent.
HasKeys(d, ks) == ks \subseteq DOMAIN d

\* Variant of parse_response: fields are read with dict.get, a field that is
\* not there comes out as None.
NoField == [none |-> TRUE]
Get(d, k) == IF k \in DOMAIN d THEN d[k] ELSE NoField
First(d, k) ==
    IF k \notin DOMAIN d THEN NoField
    ELSE IF Len(d[k]) = 0 THEN NoField
    ELSE d[k][1]
parse_responseLenient(s, response) ==
    IF s = "VisualCrossing"
    THEN Return([source |-> "VisualCrossing",
                 temperature |-> Get(Get(response, "currentConditions"), "temp"),
                 description |-> Get(Get(response, "currentConditions"), "conditions"),
                 humidity |-> Get(Get(response, "currentConditions"), "humidity"),
                 feels_like |-> Get(Get(response, "currentConditions"), "feelslike")])
    ELSE Return([source |-> "OpenWeatherMap",
                 temperature |-> Get(Get(response, "main"), "temp"),
                 description |-> Get(First(response, "weather"), "description"),
                 humidity |-> Get(Get(response, "main"), "humidity"),
                 feels_like |-> Get(Get(response, "main"), "feels_like")])

parse_response(s, response) ==
    IF s = "VisualCrossing"
    THEN IF ~ HasKeys(response, {"currentConditions"})
         THEN Raise([type |-> "KeyError"])
         ELSE IF ~ HasKeys(response["currentConditions"],
                           {"temp", "conditions", "humidity", "feelslike"})
         THEN Raise([type |-> "KeyError"])
         ELSE Return([source |-> "VisualCrossing",
                      temperature |-> response["currentConditions"]["temp"],
                      description |-> response["currentConditions"]["conditions"],
                      humidity |-> response["currentConditions"]["humidity"],
                      feels_like |-> response["currentConditions"]["feelslike"]])
    ELSE IF ~ HasKeys(response, {"main"})
         THEN Raise([type |-> "KeyError"])
         ELSE IF ~ HasKeys(response["main"], {"temp"})
         THEN Raise([type |-> "KeyError"])
         ELSE IF ~ HasKeys(response, {"weather"})
         THEN Raise([type |-> "KeyError"])
         ELSE IF Len(response["weather"]) = 0
         THEN Raise([type |-> "IndexError"])
         ELSE IF ~ HasKeys(response["weather"][1], {"description"})
         THEN Raise([type |-> "KeyError"])
         ELSE IF ~ HasKeys(response["main"], {"humidity", "feels_like"})
         THEN Raise([type |-> "KeyError"])
         ELSE Return([source |-> "OpenWeatherMap",
                      temperature |-> response["main"]["temp"],
                      description |-> response["weather"][1]["description"],
                      humidity |-> response["main"]["humidity"],
                      feels_like |-> response["main"]["feels_like"]])

\* response.raise_for_status(): HTTPStatusError unless the status is 2xx.
raise_for_status(resp) ==
    IF resp.status_code \in 200..299
    THEN Return(resp)
    ELSE Raise([type |-> "HTTPStatusError", status_code |-> resp.status_code])

\* The try body of fetch after `await client.get` has produced `got`
\* (a response, or a raised httpx.RequestError).
TryBody(s, got) ==
    IF Raised(got) THEN got
    ELSE IF Raised(raise_for_status(got.value)) THEN raise_for_status(got.value)
    ELSE parse_response(s, got.value.json)

\* Variant of Except: the catch-all clause comes first.
ExceptCatchAllFirst(e) == Return([error |-> "Unknown error"])

\* Variant of Except: the last clause catches TypeError and ValueError only.
ExceptNarrow(e) ==
    IF e.type = "HTTPStatusError"
    THEN Return([error |-> "API error: " \o ToString(e.status_code)])
    ELSE IF e.type = "RequestError"
    THEN Return([error |-> "Request error"])
    ELSE IF e.type \in {"TypeError", "ValueError"}
    THEN Return([error |-> "Unknown error"])
    ELSE Raise(e)

\* The except clauses of fetch, in order.
Except(e) ==
    IF e.type = "HTTPStatusError"
    THEN Return([error |-> "API error: " \o ToString(e.status_code)])
    ELSE IF e.type = "RequestError"
    THEN Return([error |-> "Request error"])
    ELSE Return([error |-> "Unknown error"])

\* What fetch hands to its caller for the outcome o of its try body.
FetchResult(o) == IF Raised(o) THEN Except(o.exc) ELSE o

\* The logger.error call of each except clause of adapter s.
LogRecord(s, e) ==
    IF e.type = "HTTPStatusError"
    THEN [text |-> "Error HTTP", status_code |-> e.status_code,
          query |-> BASE_URL(s), detail |-> e.type]
    ELSE IF e.type = "RequestError"
    THEN [text |-> "Query error", query |-> BASE_URL(s), detail |-> e.type]
    ELSE [text |-> "Unknown error", detail |-> e.type]

\* The records fetch of adapter s logs for the outcome o of its try body.
Logged(s, o) == IF Raised(o) THEN <<LogRecord(s, o.exc)>> ELSE <<>>

\* ----------------------------------------------------- the outside world
\* Bodies the upstream services may answer with (numbers are tenths).
GoodVC == {[currentConditions |->
              [temp |-> t, conditions |-> "Clear", humidity |-> 40, feelslike |-> 209]]
           : t \in {215}}
BadVC == {[days |-> <<>>],
          [currentConditions |-> [temp |-> 215, conditions |-> "Clear"]]}
GoodOW == {[main |-> [temp |-> t, humidity |-> 40, feels_like |-> 209],
            weather |-> <<[description |-> "clear sky"]>>]
           : t \in {215}}
BadOW == {[cod |-> 200],
          [main |-> [temp |-> 215, humidity |-> 40, feels_like |-> 209],
           weather |-> <<>>]}
Payloads(s) == IF s = "VisualCrossing" THEN GoodVC \cup BadVC ELSE GoodOW \cup BadOW
ErrorBody == [message |-> "error"]
ErrorStatus == {401, 500}

\* Everything `await client.get(...)` can produce.
Replies(s) ==
    {Return([status_code |-> 200, json |-> p]) : p \in Payloads(s)}
    \cup {Return([status_code |-> c, json |-> ErrorBody]) : c \in ErrorStatus}
    \cup {Raise([type |-> "RequestError"])}

\* What the upstream of adapter s answers to the request req: asked without
\* a key it refuses with 401, unless the call fails in transport.
KeySent(s, req) ==
    IF s = "VisualCrossing" THEN req.params.key ELSE req.params.appid

Answers(s, req) ==
    IF KeySent(s, req) = NoKey
    THEN {Return([status_code |-> 401, json |-> ErrorBody]),
          Raise([type |-> "RequestError"])}
    ELSE Replies(s)

IsError(d) == "error" \in DOMAIN d

\* return {"error": "unable fetch weather data from any source."}
Aggregate == [error |-> "unable fetch weather data from any source."]

\* ------------------------------------------------------- response cache
\* Variant of key_builder: the city is lower-cased before it is used.
Lower(c) == IF c = "Paris" THEN "paris" ELSE c
key_builderLower(c) == <<"weather_cache", "weather", Lower(c)>>

\* FastAPICache.init(..., prefix="weather_cache") and the default key
\* builder: prefix, decorated function and its arguments, verbatim.
key_builder(c) == <<"weather_cache", "weather", c>>

Keys == {key_builder(c) : c \in City}

\* A key of the backend: absent, or a value with its remaining time to live.
NoEntry == [present |-> FALSE]
None == [none |-> TRUE]

\* backend.get(key): the stored value, None when the key is absent.
BackendGet(store, k) ==
    IF store[k].present THEN Return(store[k].value) ELSE None

\* Variant of BackendSet: error bodies are not stored.
BackendSetSkipErrors(store, k, v, expire) ==
    IF IsError(v) THEN store
    ELSE [store EXCEPT ![k] = [present |-> TRUE, value |-> v, ttl |-> expire]]

\* Variant of BackendSet: an existing entry is kept (set-if-absent).
BackendSetIfAbsent(store, k, v, expire) ==
    IF store[k].present THEN store
    ELSE [store EXCEPT ![k] = [present |-> TRUE, value |-> v, ttl |-> expire]]

\* backend.set(key, value, expire): replaces the key's entry wholesale.
BackendSet(store, k, v, expire) ==
    [store EXCEPT ![k] = [present |-> TRUE, value |-> v, ttl |-> expire]]

\* Variant of Expired: a key outlives its time to live by one tick.
ExpiredLate(ttl) == ttl < 0

\* The backend drops a key once its time to live has run out.
Expired(ttl) == ttl <= 0

\* The backend after d seconds.
BackendAge(store, d) ==
    [k \in DOMAIN store |->
        IF ~ store[k].present THEN store[k]
        ELSE IF Expired(store[k].ttl - d) THEN NoEntry
        ELSE [store[k] EXCEPT !.ttl = @ - d]]

\* --------------------------------------------------------------- state
VARIABLES
    pc,            \* position of each request's coroutine
    city,          \* path parameter of each request
    idx,           \* position of get_weather's loop over sources
    result,        \* value get_weather / the endpoint returned
    cache,         \* the Redis-backed response cache
    orchestrated,  \* history: the request called get_weather
    calls,         \* history: fetch invocations of the request's resolution,
                   \*          each with the outbound requests it sent, what
                   \*          client.get produced and the records it logged
    outs,          \* history: the values those fetch invocations returned
    computed,      \* history: per city, the value the endpoint last stored
                   \*          and its age in seconds
    waitingSince   \* history: the requests that were suspended in client.get
                   \*          when this request arrived and still are

vars == <<environ, pc, city, idx, result, cache, orchestrated, calls, outs,
          computed, waitingSince>>

NoCity == ""
NoResult == [pending |-> TRUE]

\* computed[c]: nothing stored yet, a value stored `age` seconds ago, or a
\* value stored at least TTL seconds ago.
Never == [state |-> "never"]
Stale == [state |-> "stale"]
Fresh(v, a) == [state |-> "fresh", value |-> v, age |-> a]

Init ==
    /\ environ \in Environments
    /\ pc = [r \in Requests |-> "idle"]
    /\ city = [r \in Requests |-> NoCity]
    /\ idx = [r \in Requests |-> 0]
    /\ result = [r \in Requests |-> NoResult]
    /\ cache = [k \in Keys |-> NoEntry]
    /\ orchestrated = [r \in Requests |-> FALSE]
    /\ calls = [r \in Requests |-> <<>>]
    /\ outs = [r \in Requests |-> <<>>]
    /\ computed = [c \in City |-> Never]
    /\ waitingSince = [r \in Requests |-> {}]

\* Variant of CanStart: requests are served one at a time.
CanStartSerial(r) ==
    /\ pc[r] = "idle"
    /\ \A q \in Requests \ {r} : pc[q] \in {"idle", "done"}

\* async def weather: requests are coroutines, one may start at any time.
CanStart(r) == pc[r] = "idle"

\* A coroutine runs until its next suspension.  Position of get_weather(c)
\* together with the history of its fetch invocations:
At(p, i, res, cs, os) == [pc |-> p, idx |-> i, result |-> res, calls |-> cs, outs |-> os]

RECURSIVE Loop(_, _, _, _)
RECURSIVE AfterFetch(_, _, _, _, _)

\* Variant of AfterFetch: the `return data` of the loop is missing.
AfterFetchNoReturn(i, c, cs, os, fr) ==
    IF Raised(fr)
    THEN At("raised", i, NoResult, cs, os)
    ELSE Loop(i + 1, c, cs, Append(os, fr.value))

\* Variant of AfterFetch: the last source's error is returned as it is.
AfterFetchLeak(i, c, cs, os, fr) ==
    IF Raised(fr)
    THEN At("raised", i, NoResult, cs, os)
    ELSE IF ~ IsError(fr.value) \/ i = Len(sources)
    THEN At("returned", i, fr.value, cs, Append(os, fr.value))
    ELSE Loop(i + 1, c, cs, Append(os, fr.value))

\* Variant of AfterFetch: a failed last source is tried once more.
AfterFetchRetry(i, c, cs, os, fr) ==
    IF Raised(fr)
    THEN At("raised", i, NoResult, cs, os)
    ELSE IF ~ IsError(fr.value)
    THEN At("returned", i, fr.value, cs, Append(os, fr.value))
    ELSE IF i = Len(sources) /\ Len(cs) = Len(sources)
    THEN Loop(i, c, cs, Append(os, fr.value))
    ELSE Loop(i + 1, c, cs, Append(os, fr.value))

\* get_weather after sources[i].fetch ended with fr: an exception leaves
\* get_weather; data without "error" is returned; otherwise the loop goes on.
AfterFetch(i, c, cs, os, fr) ==
    IF Raised(fr)
    THEN At("raised", i, NoResult, cs, os)
    ELSE IF ~ IsError(fr.value)
    THEN At("returned", i, fr.value, cs, Append(os, fr.value))
    ELSE Loop(i + 1, c, cs, Append(os, fr.value))

\* Variant of Loop: a source whose key is not configured is passed over.
LoopSkipNoKey(i, c, cs, os) ==
    IF i > Len(sources)
    THEN At("returned", Len(sources), Aggregate, cs, os)
    ELSE IF api_key(sources[i]) = NoKey
    THEN Loop(i + 1, c, cs, os)
    ELSE LET s == sources[i]
             u == build_url(s, c)
             p == get_params(s, c)
         IN IF Raised(u) \/ Raised(p)
            THEN AfterFetch(i, c,
                            Append(cs, [source |-> s, requests |-> <<>>, reply |-> None,
                                        logs |-> Logged(s, IF Raised(u) THEN u ELSE p)]),
                            os,
                            FetchResult(IF Raised(u) THEN u ELSE p))
            ELSE At("http", i, NoResult,
                    Append(cs, [source |-> s,
                                requests |-> <<[url |-> u.value, params |-> p.value]>>,
                                reply |-> None, logs |-> <<>>]),
                    os)

\* `for source in sources` from sources[i] on: fetch evaluates the arguments
\* of client.get inside its try block and suspends in the call; after the
\* last source get_weather returns the aggregate error.
Loop(i, c, cs, os) ==
    IF i > Len(sources)
    THEN At("returned", Len(sources), Aggregate, cs, os)
    ELSE LET s == sources[i]
             u == build_url(s, c)
             p == get_params(s, c)
         IN IF Raised(u) \/ Raised(p)
            THEN AfterFetch(i, c,
                            Append(cs, [source |-> s, requests |-> <<>>, reply |-> None,
                                        logs |-> Logged(s, IF Raised(u) THEN u ELSE p)]),
                            os,
                            FetchResult(IF Raised(u) THEN u ELSE p))
            ELSE At("http", i, NoResult,
                    Append(cs, [source |-> s,
                                requests |-> <<[url |-> u.value, params |-> p.value]>>,
                                reply |-> None, logs |-> <<>>]),
                    os)

\* Request r moves to position n.
Goto(r, n) ==
    /\ pc' = [pc EXCEPT ![r] = n.pc]
    /\ idx' = [idx EXCEPT ![r] = n.idx]
    /\ result' = [result EXCEPT ![r] = n.result]
    /\ calls' = [calls EXCEPT ![r] = n.calls]
    /\ outs' = [outs EXCEPT ![r] = n.outs]

\* Variant of Proceed: what is stored is the data of the last fetch.
ProceedStoresFetch(r, c, n) ==
    IF n.pc = "returned"
    THEN /\ cache' = BackendSet(cache, key_builder(c),
                                IF n.outs = <<>> THEN n.result ELSE n.outs[Len(n.outs)],
                                TTL)
         /\ computed' = [computed EXCEPT ![c] = Fresh(n.result, 0)]
         /\ Goto(r, [n EXCEPT !.pc = "done"])
    ELSE /\ Goto(r, n)
         /\ UNCHANGED <<cache, computed>>

\* The endpoint once get_weather(c) has reached position n: when get_weather
\* has returned, the decorator stores the value under the city's key
\* (backend.set is issued without a suspension in between) and answers
\* with it.
Proceed(r, c, n) ==
    IF n.pc = "returned"
    THEN /\ cache' = BackendSet(cache, key_builder(c), n.result, TTL)
         /\ computed' = [computed EXCEPT ![c] = Fresh(n.result, 0)]
         /\ Goto(r, [n EXCEPT !.pc = "done"])
    ELSE /\ Goto(r, n)
         /\ UNCHANGED <<cache, computed>>

\* GET /weather/{city}: the cache decorator looks the key up; a live entry
\* is the response, otherwise get_weather(city) runs to its first suspension.
Lookup(r, c) ==
    /\ CanStart(r)
    /\ UNCHANGED environ
    /\ city' = [city EXCEPT ![r] = c]
    /\ waitingSince' = [waitingSince EXCEPT
                          ![r] = {q \in Requests \ {r} : pc[q] = "http"}]
    /\ LET ret == BackendGet(cache, key_builder(c)) IN
       IF ret # None
       THEN /\ Goto(r, At("done", 0, ret.value, <<>>, <<>>))
            /\ UNCHANGED <<orchestrated, cache, computed>>
       ELSE /\ Proceed(r, c, Loop(1, c, <<>>, <<>>))
            /\ orchestrated' = [orchestrated EXCEPT ![r] = TRUE]

\* `await client.get(...)` resumes with a response or a transport error; the
\* rest of the try body and the except clauses run, fetch returns and
\* get_weather goes on to its next suspension or to its return.
HttpReply(r, got) ==
    /\ pc[r] = "http"
    /\ got \in Answers(sources[idx[r]], calls[r][idx[r]].requests[1])
    /\ Proceed(r, city[r],
               AfterFetch(idx[r], city[r],
                          [calls[r] EXCEPT
                             ![idx[r]].reply = got,
                             ![idx[r]].logs = Logged(sources[idx[r]],
                                                     TryBody(sources[idx[r]], got))],
                          outs[r],
                          FetchResult(TryBody(sources[idx[r]], got))))
    /\ waitingSince' = [q \in Requests |-> waitingSince[q] \ {r}]
    /\ UNCHANGED <<environ, city, orchestrated>>

\* The response (or the failure) has been sent; the slot is free again.
Complete(r) ==
    /\ pc[r] \in {"done", "raised"}
    /\ Goto(r, At("idle", 0, NoResult, <<>>, <<>>))
    /\ city' = [city EXCEPT ![r] = NoCity]
    /\ orchestrated' = [orchestrated EXCEPT ![r] = FALSE]
    /\ waitingSince' = [waitingSince EXCEPT ![r] = {}]
    /\ UNCHANGED <<environ, cache, computed>>

\* TickStep seconds pass.
Tick ==
    /\ cache' = BackendAge(cache, TickStep)
    /\ computed' = [c \in City |->
                      IF computed[c].state # "fresh" THEN computed[c]
                      ELSE IF computed[c].age + TickStep >= TTL THEN Stale
                      ELSE Fresh(computed[c].value, computed[c].age + TickStep)]
    /\ UNCHANGED <<environ, pc, city, idx, result, orchestrated, calls, outs,
                   waitingSince>>

Next ==
    \/ \E r \in Requests, c \in City : Lookup(r, c)
    \/ \E r \in Requests : \E got \in Replies(sources[1]) \cup Replies(sources[2]) :
          HttpReply(r, got)
    \/ \E r \in Requests : Complete(r)
    \/ Tick

Spec == Init /\ [][Next]_vars

\* ================================================================ claims
\* Values a provider can hand back as success, and the step of a request
\* that the cache decorator's lookup takes.
NormalizedWeather ==
    {parse_response("VisualCrossing", p).value : p \in GoodVC}
    \cup {parse_response("OpenWeatherMap", p).value : p \in GoodOW}

ValidResponse(v) == v \in NormalizedWeather \cup {Aggregate}

Arrives(r) == pc[r] = "idle" /\ pc'[r] # "idle"

\* get_weather has returned to the endpoint of request r, and r's step that
\* stores its value.
Resolved(r) == pc[r] = "done" /\ orchestrated[r]

Stores(r) == pc[r] # "done" /\ pc'[r] = "done" /\ orchestrated'[r]

\* The fetch invocations of r's resolution that have returned.
Returned(r) == 1..Len(outs[r])

\* client.get answered the i-th fetch of r with a 2xx response whose body
\* lacks an expected key.
MalformedReply(r, i) ==
    /\ calls[r][i].reply # None
    /\ ~ Raised(calls[r][i].reply)
    /\ calls[r][i].reply.value.status_code = 200
    /\ calls[r][i].reply.value.json \in BadVC \cup BadOW

\* C2: when the first provider's fetch failed, with whatever error, and the
\* second provider's fetch succeeded, get_weather returns exactly the second
\* provider's NormalizedWeather.
C2_FallbackToSecond ==
    \A r \in Requests :
        (/\ Resolved(r)
         /\ Len(outs[r]) = 2
         /\ IsError(outs[r][1])
         /\ ~ IsError(outs[r][2]))
        => /\ result[r] = outs[r][2]
           /\ result[r] = parse_response(sources[2], calls[r][2].reply.value.json).value
           /\ result[r].source = "OpenWeatherMap"

C2_Witness ==
    \E r \in Requests :
        /\ Resolved(r)
        /\ Len(outs[r]) = 2
        /\ calls[r][1].source = "VisualCrossing"
        /\ calls[r][2].source = "OpenWeatherMap"
        /\ IsError(outs[r][1])
        /\ ~ IsError(outs[r][2])
        /\ result[r] \in NormalizedWeather

\* C3: when every provider's fetch failed, get_weather returns exactly the
\* aggregate error, whatever the failures were; whatever get_weather returns
\* is a NormalizedWeather or the aggregate error, never a provider's own
\* error value.
C3_OnlyAggregateError ==
    \A r \in Requests :
        /\ Resolved(r) =>
             /\ ValidResponse(result[r])
             /\ (IsError(result[r]) => result[r] = Aggregate)
             /\ ((\A i \in Returned(r) : IsError(outs[r][i]))
                    => (Len(outs[r]) = Len(sources) /\ result[r] = Aggregate))
        /\ pc[r] = "done" => ValidResponse(result[r])

C3_Witness ==
    \E r \in Requests :
        /\ Resolved(r)
        /\ Len(outs[r]) = Len(sources)
        /\ outs[r][1] = [error |-> "Unknown error"]
        /\ outs[r][2] \in {[error |-> "API error: 401"], [error |-> "Request error"]}
        /\ result[r] = Aggregate

\* C4: a request that arrives while the value stored for its city is younger
\* than TTL is answered with that value and get_weather is not called; a
\* request that arrives when nothing was stored or the stored value is TTL
\* seconds old or older calls get_weather.
C4_CacheIdempotence ==
    [][\A r \in Requests :
          Arrives(r) =>
            LET c == city'[r] IN
            /\ computed[c].state = "fresh" =>
                  /\ pc'[r] = "done"
                  /\ ~ orchestrated'[r]
                  /\ calls'[r] = <<>>
                  /\ result'[r] = computed[c].value
            /\ computed[c].state # "fresh" =>
                  /\ orchestrated'[r]
                  /\ calls'[r] # <<>>]_vars

C4_Witness ==
    \E r1, r2 \in Requests :
        /\ r1 # r2
        /\ city[r1] = city[r2]
        /\ pc[r1] = "done" /\ ~ orchestrated[r1]
        /\ pc[r2] = "http" /\ orchestrated[r2]
        /\ computed[city[r1]] = Stale

C6_MalformedIsFailure ==
    \A r \in Requests :
        /\ pc[r] # "raised"
        /\ \A i \in Returned(r) :
              MalformedReply(r, i) =>
                /\ IsError(outs[r][i])
                /\ Resolved(r) => (result[r] # outs[r][i])
                /\ (Resolved(r) /\ i = Len(sources)) => (result[r] = Aggregate)

C6_Witness ==
    \E r \in Requests :
        /\ Resolved(r)
        /\ Len(outs[r]) = 2
        /\ MalformedReply(r, 2)
        /\ result[r] = Aggregate

\* C7: a request for city A is answered from the cache only with a value
\* stored for A, and storing the response of a request for A leaves the
\* entry of every other city B untouched, also when A and B differ in
\* letter case only.
C7_KeyIsCity ==
    [][\A r \in Requests :
          /\ (Arrives(r) /\ pc'[r] = "done") =>
                /\ computed[city'[r]].state = "fresh"
                /\ result'[r] = computed[city'[r]].value
          /\ Stores(r) =>
                \A b \in City \ {city'[r]} :
                    cache'[key_builder(b)] = cache[key_builder(b)]]_vars

C7_Witness ==
    \E r \in Requests : \E b \in City \ {city[r]} :
        /\ pc[r] = "done"
        /\ ~ orchestrated[r]
        /\ cache[key_builder(city[r])].present
        /\ cache[key_builder(b)].present
        /\ cache[key_builder(b)].value # cache[key_builder(city[r])].value
        /\ result[r] = cache[key_builder(city[r])].value

\* The entry of city c is what was last stored for c, with the time to live
\* that is left of it.
EntryWellFormed(c) ==
    IF computed[c].state = "fresh"
    THEN /\ ValidResponse(computed[c].value)
         /\ cache[key_builder(c)] =
              [present |-> TRUE, value |-> computed[c].value,
               ttl |-> TTL - computed[c].age]
    ELSE cache[key_builder(c)] = NoEntry

\* C8: of two requests for the same city that both missed the cache and both
\* ran get_weather, each one that has ended has a valid response, and the
\* cache holds one well-formed entry for the city: the value stored last.
C8_NoSingleFlight ==
    \A r1, r2 \in Requests :
        (/\ r1 # r2
         /\ city[r1] = city[r2]
         /\ orchestrated[r1] /\ orchestrated[r2]
         /\ pc[r1] = "done")
        => /\ ValidResponse(result[r1])
           /\ computed[city[r1]].state # "never"
           /\ EntryWellFormed(city[r1])
           /\ pc[r2] \in {"http", "done"}
           /\ pc[r2] = "done" => ValidResponse(result[r2])

\* r2 was under way, past its miss, when r1 arrived and missed; r1 has ended
\* and r2 is still under way.
C8_Witness ==
    \E r1, r2 \in Requests :
        /\ r1 # r2
        /\ city[r1] = city[r2]
        /\ orchestrated[r1] /\ orchestrated[r2]
        /\ pc[r1] = "done" /\ pc[r2] = "http"
        /\ r2 \in waitingSince[r1]
        /\ computed[city[r1]] = Fresh(result[r1], 0)

\* C9: whatever the other requests are doing, an idle slot can take a
\* request for any city and a request under way can take its next step.
C9_NoBlocking ==
    \A r \in Requests :
        /\ pc[r] = "idle" => \A c \in City : ENABLED Lookup(r, c)
        /\ pc[r] = "http" =>
              ENABLED (\E got \in Replies(sources[idx[r]]) : HttpReply(r, got))
        /\ pc[r] = "done" => ENABLED Complete(r)

C9_Witness ==
    \E r1, r2 \in Requests :
        /\ r1 # r2
        /\ pc[r1] = "http"
        /\ r1 \in waitingSince[r2]
        /\ city[r1] # city[r2]
        /\ pc[r2] = "done"
        /\ orchestrated[r2]

\* C10: every fetch invocation sends exactly one outbound request.
C10_ExactlyOneNetworkCall ==
    \A r \in Requests : \A i \in Returned(r) :
        Len(calls[r][i].requests) = 1

\* C11: within one resolution the fetches run one after the other in the
\* order VisualCrossing, OpenWeatherMap: at most one fetch is in flight, it is
\* the last one started, and the OpenWeatherMap fetch has started only once
\* the VisualCrossing fetch has returned a failure.
InFlight(r) == {i \in 1..Len(calls[r]) : i \notin Returned(r)}

C11_SequentialInOrder ==
    \A r \in Requests :
        /\ Len(calls[r]) <= 2
        /\ Len(calls[r]) >= 1 => calls[r][1].source = "VisualCrossing"
        /\ Len(calls[r]) >= 2 =>
              /\ calls[r][2].source = "OpenWeatherMap"
              /\ 1 \in Returned(r)
              /\ IsError(outs[r][1])
        /\ Len(outs[r]) <= Len(calls[r])
        /\ InFlight(r) = IF pc[r] = "http" THEN {Len(calls[r])} ELSE {}

C11_Witness ==
    \E r \in Requests :
        /\ pc[r] = "http"
        /\ Len(calls[r]) = 2
        /\ calls[r][2].source = "OpenWeatherMap"
        /\ InFlight(r) = {2}
        /\ IsError(outs[r][1])

\* C12: a fetch that fails reports exactly one kind of failure, fixed by
\* what went wrong: a response outside 2xx gives "API error: <code>", a
\* transport failure gives "Request error", an exception while building the
\* request or parsing the body gives "Unknown error"; a well-formed 2xx
\* response gives no error at all.
NotSent(r, i) == calls[r][i].requests = <<>>

TransportFailed(r, i) ==
    /\ ~ NotSent(r, i)
    /\ Raised(calls[r][i].reply)

Answered(r, i) ==
    /\ ~ NotSent(r, i)
    /\ ~ Raised(calls[r][i].reply)

BadStatus(r, i) ==
    /\ Answered(r, i)
    /\ calls[r][i].reply.value.status_code \notin 200..299

WellFormedReply(r, i) ==
    /\ Answered(r, i)
    /\ calls[r][i].reply.value.status_code \in 200..299
    /\ calls[r][i].reply.value.json \in GoodVC \cup GoodOW

FailureKinds(r, i) ==
    {k \in {"API error", "Request error", "Unknown error"} :
        \/ k = "API error" /\ BadStatus(r, i)
        \/ k = "Request error" /\ TransportFailed(r, i)
        \/ k = "Unknown error" /\ (NotSent(r, i) \/ MalformedReply(r, i))}

C12_OneFailureKind ==
    \A r \in Requests : \A i \in Returned(r) :
        /\ BadStatus(r, i) =>
              outs[r][i] = [error |-> "API error: "
                                        \o ToString(calls[r][i].reply.value.status_code)]
        /\ TransportFailed(r, i) => outs[r][i] = [error |-> "Request error"]
        /\ (NotSent(r, i) \/ MalformedReply(r, i)) =>
              outs[r][i] = [error |-> "Unknown error"]
        /\ WellFormedReply(r, i) =>
              /\ ~ IsError(outs[r][i])
              /\ FailureKinds(r, i) = {}
        /\ IsError(outs[r][i]) => Cardinality(FailureKinds(r, i)) = 1

C12_Witness ==
    \E r1, r2 \in Requests :
        /\ Resolved(r1) /\ Resolved(r2)
        /\ Len(outs[r1]) = 2 /\ Len(outs[r2]) = 2
        /\ NotSent(r1, 1)
        /\ outs[r1][1] = [error |-> "Unknown error"]
        /\ BadStatus(r1, 2)
        /\ outs[r1][2] = [error |-> "API error: 500"]
        /\ TransportFailed(r2, 2)
        /\ outs[r2][2] = [error |-> "Request error"]

\* C13: every value held by the response cache is a result of get_weather,
\* a NormalizedWeather or the aggregate error body, and it is the result of
\* the resolution that stored it; the error dict of a single fetch is never
\* in the cache.
FetchFailures ==
    {[error |-> "Unknown error"], [error |-> "Request error"]}
    \cup {[error |-> "API error: " \o ToString(c)] : c \in ErrorStatus}

C13_OnlyFinalResultsCached ==
    /\ \A k \in Keys :
          cache[k].present =>
              /\ cache[k].value \in NormalizedWeather \cup {Aggregate}
              /\ cache[k].value \notin FetchFailures
    /\ \A c \in City :
          computed[c].state = "fresh" =>
              /\ cache[key_builder(c)].present
              /\ cache[key_builder(c)].value = computed[c].value

C13_Witness ==
    \E c1, c2 \in City : \E r \in Requests :
        /\ cache[key_builder(c1)].present
        /\ cache[key_builder(c1)].value = Aggregate
        /\ cache[key_builder(c2)].present
        /\ cache[key_builder(c2)].value \in NormalizedWeather
        /\ Resolved(r)
        /\ city[r] = c1
        /\ IsError(outs[r][2])
        /\ outs[r][2] \in FetchFailures

\* C14: a resolution makes at most two fetch calls, one per provider and
\* none twice; every fetch returns exactly one outcome and never raises into
\* get_weather; and a resolution under way ends, with a NormalizedWeather or
\* with the aggregate error: while it waits for a reply a reply can come, and
\* each reply either ends it or leaves it fewer fetches to make.
AttemptsBounded(r) ==
    /\ Len(calls[r]) <= 2
    /\ \A i, j \in 1..Len(calls[r]) : i # j => calls[r][i].source # calls[r][j].source
    /\ pc[r] # "raised"
    /\ Len(outs[r]) <= Len(calls[r])
    /\ \A i \in 1..Len(calls[r]) : Len(calls[r][i].requests) <= 1
    /\ pc[r] = "done" =>
          /\ Len(outs[r]) = Len(calls[r])
          /\ ValidResponse(result[r])

\* Fetches a resolution under way may still have to make.
Remaining(r) == Len(sources) - Len(outs[r])

C14_TerminatesBounded ==
    /\ [](\A r \in Requests :
             /\ AttemptsBounded(r)
             /\ pc[r] = "http" =>
                   /\ Remaining(r) > 0
                   /\ ENABLED (\E got \in Replies(sources[idx[r]]) : HttpReply(r, got)))
    /\ [][\A r \in Requests :
             /\ pc[r] = "http" =>
                   /\ pc'[r] # "http" => Resolved(r)'
                   /\ pc'[r] = "http" =>
                         \/ UNCHANGED <<idx[r], calls[r], outs[r]>>
                         \/ Remaining(r)' < Remaining(r)
             /\ (pc[r] = "idle" /\ pc'[r] # "idle") =>
                   \/ pc'[r] = "done"
                   \/ pc'[r] = "http" /\ Remaining(r)' < Len(sources)]_vars

C14_Witness ==
    \E r1, r2 \in Requests :
        /\ Resolved(r1) /\ Resolved(r2)
        /\ Len(calls[r1]) = 2 /\ Len(outs[r1]) = 2
        /\ result[r1] = Aggregate
        /\ Len(calls[r2]) = 2 /\ Len(outs[r2]) = 2
        /\ result[r2] \in NormalizedWeather

\* C15: a fetch returns data without "error" only for a 2xx response whose
\* body has every expected field, and then the data is that body normalized;
\* after a response outside 2xx, a transport failure or a body with a field
\* missing, what fetch returns is an error that get_weather never hands on
\* as its result.
C15_SuccessOnlyWhenWellFormed ==
    \A r \in Requests : \A i \in Returned(r) :
        /\ ~ IsError(outs[r][i]) =>
              /\ WellFormedReply(r, i)
              /\ outs[r][i] =
                    parse_response(calls[r][i].source, calls[r][i].reply.value.json).value
              /\ outs[r][i] \in NormalizedWeather
        /\ (BadStatus(r, i) \/ TransportFailed(r, i) \/ MalformedReply(r, i)) =>
              /\ IsError(outs[r][i])
              /\ pc[r] = "done" => result[r] # outs[r][i]

C15_Witness ==
    \E r1, r2 \in Requests :
        /\ Resolved(r1) /\ Resolved(r2)
        /\ Len(outs[r1]) = 2 /\ Len(outs[r2]) = 2
        /\ WellFormedReply(r1, 2)
        /\ result[r1] = outs[r1][2]
        /\ result[r1] \in NormalizedWeather
        /\ MalformedReply(r2, 2)
        /\ IsError(outs[r2][2])
        /\ result[r2] = Aggregate

\* C16: whether or not the keys are configured, a resolution invokes the
\* VisualCrossing fetch first and, once that has failed, the OpenWeatherMap
\* fetch, which sends its request with the key it was given, empty or not;
\* when that fetch fails too the result is the aggregate error.
C16_NoKeyNotSkipped ==
    \A r \in Requests :
        orchestrated[r] =>
            /\ Len(calls[r]) >= 1
            /\ calls[r][1].source = "VisualCrossing"
            /\ (1 \in Returned(r) /\ IsError(outs[r][1])) =>
                  /\ Len(calls[r]) = 2
                  /\ calls[r][2].source = "OpenWeatherMap"
                  /\ Len(calls[r][2].requests) = 1
                  /\ calls[r][2].requests[1].params.appid =
                        environ["OPENWEATHERMAP_API_KEY"]
            /\ (Resolved(r) /\ Len(outs[r]) = 2 /\ IsError(outs[r][2])) =>
                  result[r] = Aggregate

C16_Witness ==
    \E r \in Requests :
        /\ environ["VISUALCROSSING_API_KEY"] = NoKey
        /\ environ["OPENWEATHERMAP_API_KEY"] = NoKey
        /\ Resolved(r)
        /\ Len(calls[r]) = 2
        /\ calls[r][1].source = "VisualCrossing"
        /\ calls[r][2].requests[1].params.appid = NoKey
        /\ outs[r][2] = [error |-> "API error: 401"]
        /\ result[r] = Aggregate

\* C17: a fetch that returns a failure has logged exactly one record, which
\* names the provider's endpoint together with the status code or the error
\* detail; a fetch that returns data has logged nothing.
IdentifiesProvider(rec, s) ==
    /\ "query" \in DOMAIN rec
    /\ rec.query = BASE_URL(s)
    /\ {"status_code", "detail"} \cap DOMAIN rec # {}

C17_OneLogPerFailure ==
    \A r \in Requests : \A i \in Returned(r) :
        IF IsError(outs[r][i])
        THEN /\ Len(calls[r][i].logs) = 1
             /\ IdentifiesProvider(calls[r][i].logs[1], calls[r][i].source)
        ELSE calls[r][i].logs = <<>>

\* C18: the VisualCrossing fetch never sends a request and always returns
\* "Unknown error"; a resolution ends without error exactly when its
\* OpenWeatherMap fetch returned data; and every error-free response, served
\* fresh or from the cache, and every error-free cache entry has the source
\* "OpenWeatherMap".
C18_OnlyOpenWeatherSucceeds ==
    /\ \A r \in Requests :
          /\ \A i \in 1..Len(calls[r]) :
                calls[r][i].source = "VisualCrossing" =>
                    /\ calls[r][i].requests = <<>>
                    /\ calls[r][i].reply = None
                    /\ i \in Returned(r)
                    /\ outs[r][i] = [error |-> "Unknown error"]
          /\ Resolved(r) =>
                (~ IsError(result[r])
                 <=> \E i \in Returned(r) :
                        /\ calls[r][i].source = "OpenWeatherMap"
                        /\ ~ IsError(outs[r][i]))
          /\ (pc[r] = "done" /\ ~ IsError(result[r])) =>
                result[r].source = "OpenWeatherMap"
    /\ \A k \in Keys :
          (cache[k].present /\ ~ IsError(cache[k].value)) =>
              cache[k].value.source = "OpenWeatherMap"

C18_Witness ==
    \E r1, r2 \in Requests :
        /\ Resolved(r1)
        /\ calls[r1][1].source = "VisualCrossing"
        /\ calls[r1][1].requests = <<>>
        /\ outs[r1][1] = [error |-> "Unknown error"]
        /\ ~ IsError(result[r1])
        /\ result[r1].source = "OpenWeatherMap"
        /\ pc[r2] = "done" /\ ~ orchestrated[r2]
        /\ city[r2] = city[r1]
        /\ result[r2] = result[r1]
        /\ cache[key_builder(city[r1])].present
        /\ cache[key_builder(city[r1])].value.source = "OpenWeatherMap"

====
